---- MODULE Spec2Model ----
(***************************************************************************)
(* Model of app.py: the periodic ingestion job fetch_and_store_data, the   *)
(* KbtResult table it writes and the "/" page (index) that reads it.       *)
(*                                                                         *)
(* The table lives in PostgreSQL (the URL is rebuilt as                    *)
(* postgresql+psycopg2://, app.py:27).  What the model takes from the      *)
(* database and from SQLAlchemy's session is what the code relies on:      *)
(*   - period is UNIQUE and the columns are VARCHAR(20)/(10)/(10);         *)
(*   - a Query autoflushes the session's pending objects before it runs;   *)
(*   - statements run READ COMMITTED: a SELECT sees the committed rows and *)
(*     the rows its own transaction inserted;                              *)
(*   - an INSERT of a key another open transaction inserted waits for that *)
(*     transaction to end; two transactions waiting for each other are a   *)
(*     deadlock, which the server breaks by failing one of them;           *)
(*   - the session is scoped to the app context: each run of the job and   *)
(*     each request has its own, discarded when the context ends.          *)
(* The generated id and created_at columns are not read by any code path   *)
(* and are left out of a row.                                              *)
(***************************************************************************)
EXTENDS Integers, Sequences, FiniteSets, TLC

(***************************************************************************)
(* Strings are sequences of one-character strings, so that str(), column   *)
(* lengths and ORDER BY can be computed.                                   *)
(***************************************************************************)
Digits == <<"0", "1", "2", "3", "4", "5", "6", "7", "8", "9">>

\* The characters of the model's strings, in code-point order.
Alphabet == <<"/", "0", "1", "2", "3", "4", "5", "6", "7", "8", "9",
              "A", "N", "d", "e", "g", "n", "o", "r", "x">>

CharOrd(c) == CHOOSE i \in 1..Len(Alphabet) : Alphabet[i] = c

\* a < b as strings (what ORDER BY period compares).
RECURSIVE StrLess(_, _)
StrLess(a, b) ==
    IF a = <<>> THEN b # <<>>
    ELSE IF b = <<>> THEN FALSE
    ELSE IF Head(a) = Head(b) THEN StrLess(Tail(a), Tail(b))
    ELSE CharOrd(Head(a)) < CharOrd(Head(b))

\* The decimal digits of a natural number.
RECURSIVE NatToStr(_)
NatToStr(n) ==
    IF n < 10 THEN <<Digits[n + 1]>>
    ELSE NatToStr(n \div 10) \o <<Digits[(n % 10) + 1]>>

(***************************************************************************)
(* JSON values as Python sees them after response.json(): a str, an int or *)
(* None.  Absent marks a key the object does not have.                     *)
(***************************************************************************)
PyStr(s) == [t |-> "str", s |-> s, n |-> 0]
PyInt(k) == [t |-> "int", s |-> <<>>, n |-> k]
PyNone == [t |-> "none", s |-> <<>>, n |-> 0]
Absent == [t |-> "absent", s |-> <<>>, n |-> 0]

\* Python's str(v).
str(v) ==
    CASE v.t = "str" -> v.s
      [] v.t = "int" -> NatToStr(v.n)
      [] OTHER -> <<"N", "o", "n", "e">>

\* An element of the fetched list: a JSON object with some of the keys
\* period, number, color, or a JSON value that is not an object.
Obj(p, n, c) == [obj |-> TRUE, period |-> p, number |-> n, color |-> c]
NotObj == [obj |-> FALSE, period |-> Absent, number |-> Absent, color |-> Absent]

\* item.get(key) / item.get(key, default) on an object.
get(item, key, default) ==
    LET v == CASE key = "period" -> item.period
               [] key = "number" -> item.number
               [] OTHER -> item.color
    IN  IF v = Absent THEN default ELSE v

(***************************************************************************)
(* KbtResult rows and the table.                                           *)
(***************************************************************************)
PeriodLen == 20
NumberLen == 10
ColorLen == 10

NA == <<"N", "/", "A">>

\* Mutant: item.get('number') and item.get('color') without the 'N/A'
\* default.
KbtResultNoDefault(period_id, item) ==
    [period |-> str(period_id),
     number |-> str(get(item, "number", PyNone)),
     color |-> str(get(item, "color", PyNone))]

\* KbtResult(period=str(period_id), number=str(item.get('number', 'N/A')),
\*           color=str(item.get('color', 'N/A')))
KbtResult(period_id, item) ==
    [period |-> str(period_id),
     number |-> str(get(item, "number", PyStr(NA))),
     color |-> str(get(item, "color", PyStr(NA)))]

Range(s) == {s[i] : i \in 1..Len(s)}
Periods(rows) == {rows[i].period : i \in 1..Len(rows)}

(***************************************************************************)
(* The HTTP exchange.  A response never arrived (status 0: timeout,        *)
(* connection failure) or it carries a status and a body; the body is      *)
(* JSON or not, and JSON data is a list of elements or some other value.   *)
(***************************************************************************)
Response(status, json, list, items) ==
    [status |-> status, json |-> json, list |-> list, items |-> items]

\* requests.get(api_url, timeout=15) raises when no response arrives.
get_raises(resp) == resp.status = 0

\* response.raise_for_status() raises HTTPError on a 4xx or 5xx status, and
\* on no other: a 1xx or 3xx status, or one from 600 on, passes.
raise_for_status(resp) == resp.status >= 400 /\ resp.status < 600

\* What lines 63-65 end with: an exception's name, or "data".
FetchResult(resp) ==
    IF get_raises(resp) \/ raise_for_status(resp) THEN "RequestException"
    ELSE IF ~resp.json THEN "JSONDecodeError"
    ELSE "data"

\* isinstance(data, list) and data
IsNonEmptyList(resp) == resp.list /\ resp.items # <<>>

(***************************************************************************)
(* The database, as one statement sees it.  tbl is the committed table,    *)
(* own the rows this transaction has inserted, others the periods that     *)
(* the other open transactions have inserted.                              *)
(***************************************************************************)
\* Mutant: the column is declared without unique=True.
NoUniqueIndex(row, tbl, own) == FALSE

\* The unique index on period (unique=True): TRUE when the key is taken.
UniqueViolation(row, tbl, own) ==
    row.period \in Periods(tbl) \cup Periods(own)

\* INSERT of one row: "ok", an error's name, or "blocked" while another
\* open transaction holds the same key.
Insert(row, tbl, own, others) ==
    IF Len(row.period) > PeriodLen \/ Len(row.number) > NumberLen
         \/ Len(row.color) > ColorLen
    THEN "DataError"
    ELSE IF UniqueViolation(row, tbl, own) THEN "IntegrityError"
    ELSE IF row.period \in others THEN "blocked"
    ELSE "ok"

\* session.flush(): INSERT the pending rows in the order they were added,
\* stopping at the first that does not succeed.
RECURSIVE Flush(_, _, _, _)
Flush(pending, tbl, own, others) ==
    IF pending = <<>> THEN [res |-> "ok", flushed |-> own]
    ELSE LET r == Insert(Head(pending), tbl, own, others)
         IN  IF r = "ok"
             THEN Flush(Tail(pending), tbl, Append(own, Head(pending)), others)
             ELSE [res |-> r, flushed |-> own]

\* Mutant: the session does not autoflush, so the query sees the committed
\* rows only.
SelectNoAutoflush(period_id, tbl, own) ==
    CASE period_id.t = "int" -> "ProgrammingError"
      [] period_id.t = "str" ->
            IF period_id.s \in Periods(tbl) THEN "found" ELSE "none"
      [] OTHER -> "none"

\* KbtResult.query.filter_by(period=period_id).first(), after the autoflush:
\* "found" or "none".  period_id goes to the statement as it is: an int makes
\* it WHERE period = 100, which PostgreSQL rejects (no operator compares
\* character varying with integer), and None makes it WHERE period IS NULL,
\* which no row matches.
Select(period_id, tbl, own) ==
    CASE period_id.t = "int" -> "ProgrammingError"
      [] period_id.t = "str" ->
            IF period_id.s \in Periods(tbl) \cup Periods(own)
            THEN "found" ELSE "none"
      [] OTHER -> "none"

(***************************************************************************)
(* One pass of the loop body (lines 70-81) on a session                    *)
(* s = [pending, flushed, staged, found, begun], where staged lists every  *)
(* row given to session.add in this run, found is new_results_found and    *)
(* begun says that the session holds an open transaction on a connection   *)
(* (a statement of the run was answered).  up says whether the database    *)
(* answers.  The result is the session after the pass with exc = "" or the *)
(* exception raised, or exc = "blocked".                                   *)
(***************************************************************************)
Raise(s, e) == [s EXCEPT !.exc = e]

\* The transaction of s is over before an except clause runs: the statement
\* that failed found the connection dead, which invalidates it, or it was a
\* flush, which rolls back by itself.  A rollback() after it sends nothing.
Over(s) == [s EXCEPT !.begun = FALSE]

\* The statement was sent in a transaction, which stays open.
Begun(s) == [s EXCEPT !.begun = TRUE]

\* Mutant: line 73 without "and period_id is not None".
ProcessItemNoneStaged(s, item, tbl, others, up) ==
    IF ~item.obj THEN Raise(s, "AttributeError")
    ELSE
      LET period_id == get(item, "period", PyNone)
          f == Flush(s.pending, tbl, s.flushed, others)
          q == Select(period_id, tbl, f.flushed)
      IN  IF ~up THEN Raise(Over(s), "OperationalError")
          ELSE IF f.res # "ok" THEN Raise(Over(s), f.res)
          ELSE IF q = "ProgrammingError" THEN Raise(Begun(s), q)
          ELSE IF q = "none"
          THEN LET new_result == KbtResult(period_id, item)
               IN  [s EXCEPT !.pending = <<new_result>>,
                             !.flushed = f.flushed,
                             !.begun = TRUE,
                             !.staged = Append(@, new_result),
                             !.found = @ + 1]
          ELSE [s EXCEPT !.pending = <<>>, !.flushed = f.flushed,
                         !.begun = TRUE]

\* Mutant: new_results_found += 1 stands outside the if of line 73.
ProcessItemCountsAll(s, item, tbl, others, up) ==
    IF ~item.obj THEN Raise(s, "AttributeError")
    ELSE
      LET period_id == get(item, "period", PyNone)
          f == Flush(s.pending, tbl, s.flushed, others)
          q == Select(period_id, tbl, f.flushed)
      IN  IF ~up THEN Raise(Over(s), "OperationalError")
          ELSE IF f.res # "ok" THEN Raise(Over(s), f.res)
          ELSE IF q = "ProgrammingError" THEN Raise(Begun(s), q)
          ELSE IF q = "none" /\ period_id # PyNone
          THEN LET new_result == KbtResult(period_id, item)
               IN  [s EXCEPT !.pending = <<new_result>>,
                             !.flushed = f.flushed,
                             !.begun = TRUE,
                             !.staged = Append(@, new_result),
                             !.found = @ + 1]
          ELSE [s EXCEPT !.pending = <<>>, !.flushed = f.flushed,
                         !.begun = TRUE, !.found = @ + 1]

\* Mutant: an element that is not an object is skipped (continue) instead
\* of raising on item.get.
ProcessItemSkipsNonObject(s, item, tbl, others, up) ==
    IF ~item.obj THEN s
    ELSE
      LET period_id == get(item, "period", PyNone)
          f == Flush(s.pending, tbl, s.flushed, others)
          q == Select(period_id, tbl, f.flushed)
      IN  IF ~up THEN Raise(Over(s), "OperationalError")
          ELSE IF f.res # "ok" THEN Raise(Over(s), f.res)
          ELSE IF q = "ProgrammingError" THEN Raise(Begun(s), q)
          ELSE IF q = "none" /\ period_id # PyNone
          THEN LET new_result == KbtResult(period_id, item)
               IN  [s EXCEPT !.pending = <<new_result>>,
                             !.flushed = f.flushed,
                             !.begun = TRUE,
                             !.staged = Append(@, new_result),
                             !.found = @ + 1]
          ELSE [s EXCEPT !.pending = <<>>, !.flushed = f.flushed,
                         !.begun = TRUE]

ProcessItem(s, item, tbl, others, up) ==
    IF ~item.obj THEN Raise(s, "AttributeError")
    ELSE
      LET period_id == get(item, "period", PyNone)
          f == Flush(s.pending, tbl, s.flushed, others)
          q == Select(period_id, tbl, f.flushed)
      IN  IF ~up THEN Raise(Over(s), "OperationalError")
          ELSE IF f.res # "ok" THEN Raise(Over(s), f.res)
          ELSE IF q = "ProgrammingError" THEN Raise(Begun(s), q)
          ELSE IF q = "none" /\ period_id # PyNone
          THEN LET new_result == KbtResult(period_id, item)
               IN  [s EXCEPT !.pending = <<new_result>>,
                             !.flushed = f.flushed,
                             !.begun = TRUE,
                             !.staged = Append(@, new_result),
                             !.found = @ + 1]
          ELSE [s EXCEPT !.pending = <<>>, !.flushed = f.flushed,
                         !.begun = TRUE]

\* Lines 83-87: commit when something was staged.  The commit flushes what
\* is still pending; committed says whether the transaction's rows are now
\* part of the table.  After the commit no transaction is open; when
\* nothing was staged the transaction of the queries stays open.
Finish(s, tbl, others, up) ==
    IF s.found > 0
    THEN LET f == Flush(s.pending, tbl, s.flushed, others)
         IN  IF ~up THEN Raise(Over(s), "OperationalError")
             ELSE IF f.res # "ok" THEN Raise(Over(s), f.res)
             ELSE [s EXCEPT !.pending = <<>>, !.flushed = f.flushed,
                            !.begun = FALSE, !.exc = "committed"]
    ELSE s

\* Mutant: the table is reloaded with the rows of the run.
CommitReplaces(tbl, flushed) == flushed

\* db.session.commit(): the transaction's rows join the table.
Commit(tbl, flushed) == tbl \o flushed

\* Mutant: every INSERT is committed on its own, so a rollback undoes nothing.
RollbackKeepsInserted(tbl, flushed) == tbl \o flushed

\* db.session.rollback(): the transaction's rows are gone.
Rollback(tbl, flushed) == tbl

\* The except clause that catches an exception raised inside the try of
\* lines 62-91: the line of the clause, or 0 when none does.  The
\* JSONDecodeError that response.json() raises is requests' own, a subclass
\* of RequestException, so the first clause (line 93) catches it and the
\* clause of line 96 is not reached (it was with requests before 2.27, whose
\* response.json() raised the json module's exception).
Handler(e) ==
    CASE e = "RequestException" -> 93
      [] e = "JSONDecodeError" -> 93
      [] OTHER -> 101

\* db.session.rollback() in an except clause (lines 95, 100, 103), and the
\* rollback with which the teardown of the app context (the end of the with
\* block of line 58) removes the session: ROLLBACK is sent when a
\* transaction is open, and raises when the database does not answer it.
RollbackRaises(s, back) == s.begun /\ ~back

\* How a run ends whose session s holds the exception raised in the try
\* block: the exception is logged by its clause and the run returns, or
\* no clause catches it, or the clause's own rollback raises, and an
\* exception leaves the job ("escaped").
Handled(s, back) ==
    IF Handler(s.exc) = 0 \/ RollbackRaises(s, back) THEN "escaped" ELSE s.exc

\* How a run ends that went through the try block without an exception:
\* it returns, or the teardown's rollback raises and the exception leaves
\* the job from outside the try.
Returned(s, back) ==
    IF RollbackRaises(s, back) THEN "escaped"
    ELSE IF s.exc = "committed" THEN "stored" ELSE "nonew"

\* The whole loop of lines 69-81 when no other transaction is open and the
\* database answers.
RECURSIVE Loop(_, _, _)
Loop(s, items, tbl) ==
    IF items = <<>> \/ s.exc # "" THEN s
    ELSE Loop(ProcessItem(s, Head(items), tbl, {}, TRUE), Tail(items), tbl)

NewSession == [pending |-> <<>>, flushed |-> <<>>, staged |-> <<>>,
               found |-> 0, begun |-> FALSE, exc |-> ""]

\* How lines 59-67 end on a response: "loop" (the for loop is entered),
\* "invalid" (line 89) or the exception's name.
FetchOutcome(resp) ==
    IF FetchResult(resp) # "data" THEN FetchResult(resp)
    ELSE IF IsNonEmptyList(resp) THEN "loop"
    ELSE "invalid"

\* One whole run of fetch_and_store_data on a response, when no other
\* transaction is open and the database answers: the table it leaves, what
\* it staged and how it ended.
RunCycle(tbl, resp) ==
    IF FetchOutcome(resp) # "loop"
    THEN [table |-> Rollback(tbl, <<>>), staged |-> <<>>,
          outcome |-> IF FetchOutcome(resp) = "invalid" THEN "invalid"
                      ELSE Handled(Raise(NewSession, FetchOutcome(resp)),
                                   TRUE)]
    ELSE LET l == Loop(NewSession, resp.items, tbl)
             s == IF l.exc = "" THEN Finish(l, tbl, {}, TRUE) ELSE l
         IN  IF s.exc = "committed"
             THEN [table |-> Commit(tbl, s.flushed), staged |-> s.staged,
                   outcome |-> Returned(s, TRUE)]
             ELSE [table |-> Rollback(tbl, s.flushed), staged |-> s.staged,
                   outcome |-> IF s.exc = "" THEN Returned(s, TRUE)
                               ELSE Handled(s, TRUE)]

(***************************************************************************)
(* The page (lines 111-115): the rows by period descending, at most 100.   *)
(***************************************************************************)
ReadLimit == 100

\* The place of rows[i] under ORDER BY period DESC: the number of rows that
\* come before it (rows of the same period keep their order).
RankDesc(rows, i) ==
    Cardinality({j \in 1..Len(rows) :
                    \/ StrLess(rows[i].period, rows[j].period)
                    \/ rows[j].period = rows[i].period /\ j < i})

\* Mutant: the rows are ordered by period ascending.
OrderByPeriodAsc(rows) ==
    LET place == {<<Len(rows) - 1 - RankDesc(rows, i), i>> : i \in 1..Len(rows)}
    IN  [k \in 1..Len(rows) |->
            rows[(CHOOSE p \in place : p[1] = k - 1)[2]]]

\* KbtResult.query.order_by(KbtResult.period.desc())
OrderByPeriodDesc(rows) ==
    LET place == {<<RankDesc(rows, i), i>> : i \in 1..Len(rows)}
    IN  [k \in 1..Len(rows) |->
            rows[(CHOOSE p \in place : p[1] = k - 1)[2]]]

\* .limit(n)
Limit(rows, n) == SubSeq(rows, 1, IF Len(rows) < n THEN Len(rows) ELSE n)

\* Mutant: the query also sees the rows of open transactions.
RECURSIVE VisibleUncommitted(_, _)
VisibleUncommitted(tbl, open) ==
    IF DOMAIN open = {} THEN tbl
    ELSE LET w == CHOOSE x \in DOMAIN open : TRUE
         IN  VisibleUncommitted(tbl \o open[w],
                                [x \in DOMAIN open \ {w} |-> open[x]])

\* What the page's query sees: the committed rows.
Visible(tbl, open) == tbl

\* KbtResult.query.order_by(KbtResult.period.desc()).limit(100).all()
Latest(tbl) == Limit(OrderByPeriodDesc(tbl), ReadLimit)

(***************************************************************************)
(* The bounded environment.                                                *)
(***************************************************************************)
\* Longest list a response carries when one process runs the job.
MaxBatch == 3

\* Longest list a response carries when two processes run the job.
MaxOverlapBatch == 2

S100 == <<"1", "0", "0">>
S101 == <<"1", "0", "1">>
S99 == <<"9", "9">>
TooLong == <<"1", "2", "3", "4", "5", "6", "7", "8", "9", "0", "1">>

Red == PyStr(<<"r", "e", "d">>)
Green == PyStr(<<"g", "r", "e", "e", "n">>)

ItemA == Obj(PyStr(S100), PyStr(<<"5">>), Red)
ItemA2 == Obj(PyStr(S100), PyStr(<<"3">>), Green)
ItemB == Obj(PyStr(S101), Absent, Absent)
ItemNoPeriod == Obj(Absent, PyStr(<<"5">>), Red)
ItemIntPeriod == Obj(PyInt(100), PyInt(5), Red)
ItemTooLong == Obj(PyStr(S99), PyStr(TooLong), Red)
ItemC == Obj(PyStr(S101), PyInt(7), Absent)
ItemD == Obj(PyStr(S99), Absent, Green)

\* The elements a response may carry.
Items == {ItemA, ItemA2, ItemB, ItemNoPeriod, ItemIntPeriod, ItemTooLong, NotObj}

\* Objects that have a period and have or lack number and color.
FieldItems == {ItemA, ItemB, ItemC, ItemD}

\* The elements a response carries when two processes run the job.
OverlapItems == {ItemA, ItemB}

Lists(U, n) == UNION {[1..k -> U] : k \in 0..n}

NoResponse == Response(0, FALSE, FALSE, <<>>)

\* A status outside 200-299 that is no 4xx or 5xx either.
OtherStatus == 399

\* The responses of the external API: none, a body that is not JSON, JSON
\* that is not a list, and a list, with a success status, an error status
\* or a status that is neither.
Responses(U, n) ==
    { NoResponse,
      Response(200, FALSE, FALSE, <<>>),
      Response(200, TRUE, FALSE, <<>>) }
    \cup { Response(st, TRUE, TRUE, l) : st \in {200, OtherStatus, 500}, l \in Lists(U, n) }

(***************************************************************************)
(* State.                                                                  *)
(***************************************************************************)
\* The processes that run the job (each has its own scheduler, lines
\* 134-136, which starts the job again only after the last run returned).
Workers == {1, 2}

VARIABLES
    table,      \* the committed rows of KbtResult, in commit order
    pc,         \* per worker: "idle" between runs, "loop" inside lines 67-87
    response,   \* per worker: the local variable response of the run
    data,       \* per worker: the elements of the list still to process
    sess,       \* per worker: db.session of the run
    page,       \* what the last request to "/" rendered
    groups,     \* history: the sets of rows that were committed together
    hist        \* history of the last run when one process runs the job:
                \* the table when it began, the status and the kind of body
                \* of its response, how it ended and the value of
                \* new_results_found when it ended
                \* (SpecLive uses its outcome field to mark the point from
                \* which every fetch succeeds)

vars == <<table, pc, response, data, sess, page, groups, hist>>

\* No request yet.  results and error are what render_template is given,
\* served says the page was delivered.  asked, seen, open and failed are
\* history: a request was made, the table when it ran, whether a run then
\* held inserted, uncommitted rows, and whether the query raised.
NoPage == [results |-> <<>>, error |-> FALSE, served |-> FALSE, seen |-> <<>>,
           open |-> FALSE, failed |-> FALSE, asked |-> FALSE]

NoHist == [start |-> <<>>, status |-> 0, body |-> "none", outcome |-> "none",
           found |-> 0]

\* What a response carries: nothing ("none"), a body that is not JSON
\* ("text"), JSON that is not a list ("value"), the empty list ("empty") or
\* a list with elements ("list").
Body(resp) ==
    CASE resp.status = 0 -> "none"
      [] ~resp.json -> "text"
      [] ~resp.list -> "value"
      [] resp.items = <<>> -> "empty"
      [] OTHER -> "list"

Init ==
    /\ table = <<>>
    /\ pc = [w \in Workers |-> "idle"]
    /\ response = [w \in Workers |-> NoResponse]
    /\ data = [w \in Workers |-> <<>>]
    /\ sess = [w \in Workers |-> NewSession]
    /\ page = NoPage
    /\ groups = {}
    /\ hist = NoHist

\* The periods the other open transactions have inserted.
Others(w) == UNION {Periods(sess[o].flushed) : o \in Workers \ {w}}

\* The run of worker w returns: the app context is torn down and its
\* session with it.
EndRun(w) ==
    /\ pc' = [pc EXCEPT ![w] = "idle"]
    /\ response' = [response EXCEPT ![w] = NoResponse]
    /\ data' = [data EXCEPT ![w] = <<>>]
    /\ sess' = [sess EXCEPT ![w] = NewSession]

\* The scheduler fires and lines 59-67 run: the request, the status check,
\* the JSON decoding and the test of the data.  The except clauses roll
\* back a session that holds nothing yet.
Fetch(w, resp) ==
    /\ pc[w] = "idle"
    /\ IF FetchOutcome(resp) = "loop"
       THEN /\ pc' = [pc EXCEPT ![w] = "loop"]
            /\ response' = [response EXCEPT ![w] = resp]
            /\ data' = [data EXCEPT ![w] = resp.items]
            /\ sess' = [sess EXCEPT ![w] = NewSession]
            /\ table' = table
       ELSE /\ table' = Rollback(table, <<>>)
            /\ EndRun(w)
    /\ UNCHANGED <<page, groups>>

\* The session sends the INSERT of its pending row: the autoflush before the
\* query of line 72, or the flush of the commit of line 84.  The session
\* after it, with exc = "" or the exception raised, or exc = "blocked".
FlushResult(w, up) ==
    LET f == Flush(sess[w].pending, table, sess[w].flushed, Others(w))
    IN  IF ~up THEN Raise(Over(sess[w]), "OperationalError")
        ELSE IF f.res # "ok" THEN Raise(Over(sess[w]), f.res)
        ELSE [sess[w] EXCEPT !.pending = <<>>, !.flushed = f.flushed,
                             !.begun = TRUE]

\* The next statement of the run of w is the INSERT of its pending row:
\* the loop is at an object (item.get of line 70 passed) or at its end.
AtFlush(w) ==
    /\ pc[w] = "loop"
    /\ sess[w].pending # <<>>
    /\ data[w] # <<>> => Head(data[w]).obj

\* The INSERT of the pending row, one statement on its own round trip; an
\* exception ends the run in the handler of lines 101-103.
FlushStep(w, up) ==
    /\ AtFlush(w)
    /\ LET s == FlushResult(w, up)
       IN  /\ s.exc # "blocked"
           /\ IF s.exc = ""
              THEN /\ sess' = [sess EXCEPT ![w] = s]
                   /\ UNCHANGED <<table, pc, response, data>>
              ELSE /\ table' = Rollback(table, s.flushed)
                   /\ EndRun(w)
    /\ UNCHANGED <<page, groups>>

\* The loop body on the next element, for worker w.
ItemResult(w, up) ==
    ProcessItem(sess[w], Head(data[w]), table, Others(w), up)

\* One element of the list goes through lines 70-81, once the pending row
\* is inserted: item.get, the SELECT of line 72 and lines 73-81; an
\* exception ends the run in the handler of lines 101-103, whose rollback
\* leaves the table as it is also when it raises (the server drops the
\* transaction of a connection it lost).
Item(w, up) ==
    /\ pc[w] = "loop"
    /\ data[w] # <<>>
    /\ sess[w].pending = <<>> \/ ~Head(data[w]).obj
    /\ LET s == ItemResult(w, up)
       IN  /\ s.exc # "blocked"
           /\ IF s.exc = ""
              THEN /\ sess' = [sess EXCEPT ![w] = s]
                   /\ data' = [data EXCEPT ![w] = Tail(@)]
                   /\ UNCHANGED <<table, pc, response>>
              ELSE /\ table' = Rollback(table, s.flushed)
                   /\ EndRun(w)
    /\ UNCHANGED <<page, groups>>

\* Lines 83-87 for worker w.
EndResult(w, up) == Finish(sess[w], table, Others(w), up)

\* How the run ends there: "stored", "nonew", the name of the exception a
\* clause logged, or "escaped".
EndOutcome(w, up) ==
    IF EndResult(w, up).exc \in {"committed", ""}
    THEN Returned(EndResult(w, up), up)
    ELSE Handled(EndResult(w, up), up)

\* The list is exhausted and the pending row inserted: lines 83-87 (the
\* COMMIT, when something was staged), then the context ends and its
\* teardown rolls back what is still open.
End(w, up) ==
    /\ pc[w] = "loop"
    /\ data[w] = <<>>
    /\ sess[w].pending = <<>>
    /\ LET s == EndResult(w, up)
       IN  /\ s.exc # "blocked"
           /\ IF s.exc = "committed"
              THEN /\ table' = Commit(table, s.flushed)
                   /\ groups' = groups \cup {Range(s.flushed)}
              ELSE /\ table' = Rollback(table, s.flushed)
                   /\ groups' = groups
    /\ EndRun(w)
    /\ UNCHANGED page

\* The COMMIT of line 84 takes effect on the server and its reply does not
\* reach the client: commit() raises, the handler of lines 101-103 rolls
\* back a transaction that is already committed.
EndReplyLost(w) ==
    /\ pc[w] = "loop"
    /\ data[w] = <<>>
    /\ sess[w].pending = <<>>
    /\ sess[w].found > 0
    /\ table' = Commit(table, sess[w].flushed)
    /\ groups' = groups \cup {Range(sess[w].flushed)}
    /\ EndRun(w)
    /\ UNCHANGED page

\* w's next statement waits for a row of o's open transaction.
WaitsFor(w, o) ==
    /\ AtFlush(w)
    /\ Flush(sess[w].pending, table, sess[w].flushed, Others(w)).res = "blocked"
    /\ \E i \in 1..Len(sess[w].pending) :
         sess[w].pending[i].period \in Periods(sess[o].flushed)

\* The session of o once the transaction of w is rolled back: an INSERT of
\* o that waited at the server for a row of w goes on there at once.
Released(o, w) ==
    LET f == Flush(sess[o].pending, table, sess[o].flushed,
                   Others(o) \ Periods(sess[w].flushed))
    IN  IF WaitsFor(o, w) /\ f.res = "ok"
        THEN [sess[o] EXCEPT !.pending = <<>>, !.flushed = f.flushed,
                             !.begun = TRUE]
        ELSE sess[o]

\* Two runs wait for each other, each with its INSERT at the server: the
\* server fails one of them, whose handler (lines 101-103) rolls back, and
\* with that ROLLBACK the INSERT of the other goes on.
DeadlockVictim(w) ==
    /\ \E o \in Workers \ {w} : WaitsFor(w, o) /\ WaitsFor(o, w)
    /\ table' = Rollback(table, sess[w].flushed)
    /\ pc' = [pc EXCEPT ![w] = "idle"]
    /\ response' = [response EXCEPT ![w] = NoResponse]
    /\ data' = [data EXCEPT ![w] = <<>>]
    /\ sess' = [o \in Workers |-> IF o = w THEN NewSession ELSE Released(o, w)]
    /\ UNCHANGED <<page, groups>>

\* A request to "/": lines 111-124, then the teardown of the request's
\* context.  up says whether the database answers the query of line 115:
\* when it raises, results keeps the [] of line 112 and error is set (lines
\* 116-117), and in both cases line 124 renders the page.  back says whether
\* the database answers the ROLLBACK with which the teardown removes the
\* session: when it raises, line 124 has rendered the page with the rows
\* of the query, and the exception leaves the application: the page is not
\* delivered.
Index(up, back) ==
    LET s == IF up THEN Begun(NewSession)
             ELSE Raise(Over(NewSession), "OperationalError")
        delivered == ~RollbackRaises(s, back)
    IN  /\ page' = [results |-> IF up
                                THEN Latest(Visible(table,
                                       [w \in Workers |-> sess[w].flushed]))
                                ELSE <<>>,
                    error |-> ~up,
                    served |-> delivered,
                    seen |-> table,
                    open |-> \E w \in Workers : sess[w].flushed # <<>>,
                    failed |-> ~up,
                    asked |-> TRUE]
        /\ UNCHANGED <<table, pc, response, data, sess, groups>>

(***************************************************************************)
(* Two processes run the job and the page is requested, in any             *)
(* interleaving of their statements.                                       *)
(***************************************************************************)
Next ==
    \/ \E w \in Workers, resp \in Responses(OverlapItems, MaxOverlapBatch) :
         Fetch(w, resp) /\ UNCHANGED hist
    \/ \E w \in Workers, up \in BOOLEAN : FlushStep(w, up) /\ UNCHANGED hist
    \/ \E w \in Workers, up \in BOOLEAN : Item(w, up) /\ UNCHANGED hist
    \/ \E w \in Workers, up \in BOOLEAN : End(w, up) /\ UNCHANGED hist
    \/ \E w \in Workers : EndReplyLost(w) /\ UNCHANGED hist
    \/ \E w \in Workers : DeadlockVictim(w) /\ UNCHANGED hist
    \/ \E up, back \in BOOLEAN : Index(up, back) /\ UNCHANGED hist

Spec == Init /\ [][Next]_vars

(***************************************************************************)
(* Two processes run the job; from some point on (hist.outcome =           *)
(* "settled") every fetch returns a list of well-formed objects with       *)
(* period "100" among them and the database answers.  The runs begun       *)
(* before that point are still going on after it.                          *)
(*                                                                         *)
(* Fairness, from that point on: each scheduler fires again (interval, 60  *)
(* s); the server breaks a deadlock; a run that can again and again send   *)
(* its INSERT, go through an element or end, does so, also when in between *)
(* it has to wait for a row of the other process (strong fairness, for     *)
(* each of the three kinds of step).                                       *)
(***************************************************************************)
Settled == hist.outcome = "settled"

\* The elements of the lists from that point on: well-formed objects of
\* three periods, "100" among them.
LiveItems == {ItemA, ItemB, ItemD}

\* The lists of a fetch from that point on: the three objects, in any
\* order.
LiveLists ==
    {l \in [1..Cardinality(LiveItems) -> LiveItems] : Range(l) = LiveItems}

LiveFetch(w) ==
    \E l \in LiveLists : Fetch(w, Response(200, TRUE, TRUE, l))

Settle ==
    /\ ~Settled
    /\ hist' = [hist EXCEPT !.outcome = "settled"]
    /\ UNCHANGED <<table, pc, response, data, sess, page, groups>>

NextLive ==
    \/ ~Settled /\ \E w \in Workers,
                      resp \in Responses(OverlapItems, MaxOverlapBatch) :
                        Fetch(w, resp) /\ UNCHANGED hist
    \/ ~Settled /\ \E w \in Workers : FlushStep(w, FALSE) /\ UNCHANGED hist
    \/ ~Settled /\ \E w \in Workers : Item(w, FALSE) /\ UNCHANGED hist
    \/ ~Settled /\ \E w \in Workers : End(w, FALSE) /\ UNCHANGED hist
    \/ ~Settled /\ \E w \in Workers : EndReplyLost(w) /\ UNCHANGED hist
    \/ Settle
    \/ Settled /\ \E w \in Workers : LiveFetch(w) /\ UNCHANGED hist
    \/ \E w \in Workers : FlushStep(w, TRUE) /\ UNCHANGED hist
    \/ \E w \in Workers : Item(w, TRUE) /\ UNCHANGED hist
    \/ \E w \in Workers : End(w, TRUE) /\ UNCHANGED hist
    \/ \E w \in Workers : DeadlockVictim(w) /\ UNCHANGED hist

LiveFairness ==
    /\ \A w \in Workers : WF_vars(Settled /\ LiveFetch(w) /\ UNCHANGED hist)
    /\ \A w \in Workers :
          SF_vars(Settled /\ FlushStep(w, TRUE) /\ UNCHANGED hist)
    /\ \A w \in Workers : SF_vars(Settled /\ Item(w, TRUE) /\ UNCHANGED hist)
    /\ \A w \in Workers : SF_vars(Settled /\ End(w, TRUE) /\ UNCHANGED hist)
    /\ WF_vars(Settled /\ (\E w \in Workers : DeadlockVictim(w))
                       /\ UNCHANGED hist)

SpecLive == Init /\ [][NextLive]_vars /\ LiveFairness

(***************************************************************************)
(* One process runs the job, so that runs follow one another; hist         *)
(* records the run.                                                        *)
(***************************************************************************)
SeqFetch ==
    \E resp \in Responses(Items, MaxBatch) :
        /\ Fetch(1, resp)
        /\ hist' = [start |-> table, status |-> resp.status,
                    body |-> Body(resp),
                    outcome |-> CASE FetchOutcome(resp) = "loop" -> "running"
                                  [] FetchOutcome(resp) = "invalid" -> "invalid"
                                  [] OTHER ->
                                       Handled(Raise(NewSession,
                                                     FetchOutcome(resp)),
                                               FALSE),
                    found |-> 0]

SeqFlush ==
    \E up \in BOOLEAN :
        /\ FlushStep(1, up)
        /\ hist' = IF FlushResult(1, up).exc = "" THEN hist
                   ELSE [hist EXCEPT !.outcome = Handled(FlushResult(1, up), up),
                                     !.found = sess[1].found]

\* up says whether the database answers the SELECT of line 72, back whether
\* it answers the ROLLBACK of the except clause, a round trip of its own.
SeqItem ==
    \E up, back \in BOOLEAN :
        /\ Item(1, up)
        /\ hist' = IF ItemResult(1, up).exc = "" THEN hist
                   ELSE [hist EXCEPT !.outcome = Handled(ItemResult(1, up), back),
                                     !.found = sess[1].found]

SeqEnd ==
    \E up \in BOOLEAN :
        /\ End(1, up)
        /\ hist' = [hist EXCEPT !.outcome = EndOutcome(1, up),
                                !.found = sess[1].found]

SeqEndReplyLost ==
    /\ EndReplyLost(1)
    /\ hist' = [hist EXCEPT !.outcome =
                    Handled(Raise(Over(sess[1]), "OperationalError"), FALSE),
                            !.found = sess[1].found]

NextSeq == SeqFetch \/ SeqFlush \/ SeqItem \/ SeqEnd \/ SeqEndReplyLost

SpecSeq == Init /\ [][NextSeq]_vars

(***************************************************************************)
(* One process runs the job on lists of objects that have a period and     *)
(* have or lack the other keys.                                            *)
(***************************************************************************)
FieldsFetch ==
    \E l \in Lists(FieldItems, MaxBatch) :
        /\ Fetch(1, Response(200, TRUE, TRUE, l))
        /\ hist' = [start |-> table, status |-> 200,
                    body |-> Body(Response(200, TRUE, TRUE, l)),
                    outcome |-> IF l = <<>> THEN "invalid" ELSE "running",
                    found |-> 0]

NextFields == FieldsFetch \/ SeqFlush \/ SeqItem \/ SeqEnd \/ SeqEndReplyLost

SpecFields == Init /\ [][NextFields]_vars

(***************************************************************************)
(* One process stores a long list while the page is requested: the table   *)
(* grows past the page's limit.  The database may hold rows of an earlier  *)
(* life of the process.                                                    *)
(***************************************************************************)
\* How far past the page's limit a list goes.
BulkOver == 2

\* Lengths of the short lists.
BulkShort == 2

Row(k) == [period |-> NatToStr(k), number |-> NA, color |-> NA]

SeedTables == {<<>>, <<Row(7), Row(1000)>>}

BulkSizes == (0..BulkShort) \cup ((ReadLimit - 1)..(ReadLimit + BulkOver))

\* Lists of n objects with the periods 8, 9, ..., ascending or descending.
BulkLists ==
    {[i \in 1..n |-> Obj(PyStr(NatToStr(7 + i)), Absent, Absent)] : n \in BulkSizes}
    \cup
    {[i \in 1..n |-> Obj(PyStr(NatToStr(8 + n - i)), Absent, Absent)] : n \in BulkSizes}

InitRead ==
    /\ table \in SeedTables
    /\ pc = [w \in Workers |-> "idle"]
    /\ response = [w \in Workers |-> NoResponse]
    /\ data = [w \in Workers |-> <<>>]
    /\ sess = [w \in Workers |-> NewSession]
    /\ page = NoPage
    /\ groups = {}
    /\ hist = NoHist

NextRead ==
    \/ \E l \in BulkLists :
         table \in SeedTables /\ Fetch(1, Response(200, TRUE, TRUE, l))
         /\ UNCHANGED hist
    \/ \E up \in BOOLEAN : FlushStep(1, up) /\ UNCHANGED hist
    \/ \E up \in BOOLEAN : Item(1, up) /\ UNCHANGED hist
    \/ \E up \in BOOLEAN : End(1, up) /\ UNCHANGED hist
    \/ EndReplyLost(1) /\ UNCHANGED hist
    \/ \E up, back \in BOOLEAN : Index(up, back) /\ UNCHANGED hist

SpecRead == InitRead /\ [][NextRead]_vars

(***************************************************************************)
(* Properties.                                                             *)
(***************************************************************************)
\* The run ended because the database did not answer: a statement raised
\* OperationalError, or the rollback after the run's work did.
DatabaseFailed(outcome) == outcome \in {"OperationalError", "escaped"}

\* The run of worker w returns in this step, from inside the loop.
RunEnds(w) == pc[w] = "loop" /\ pc'[w] = "idle"

IsPrefix(a, b) == Len(a) <= Len(b) /\ SubSeq(b, 1, Len(a)) = a

\* How many rows of tbl have the period p.
Count(p, tbl) == Cardinality({i \in 1..Len(tbl) : tbl[i].period = p})

\* An object without a period: the key is missing or null.
NoPeriod(item) == item.obj /\ get(item, "period", PyNone) = PyNone

RemoveAt(seq, i) == SubSeq(seq, 1, i - 1) \o SubSeq(seq, i + 1, Len(seq))

\* C1: whatever the responses and however the runs of two processes
\* overlap, no two committed rows have the same period.
UniquePeriods ==
    \A i, j \in 1..Len(table) : table[i].period = table[j].period => i = j

\* Two overlapping runs met on one period: one has committed it, the other
\* has staged it too.
UniquePeriodsWitness ==
    \E w \in Workers :
        /\ sess[w].pending # <<>>
        /\ Head(sess[w].pending).period \in Periods(table)

\* C2: when a run returns, the table has gained all the rows the run
\* staged, in one step, or it is what it was: never some of them.
AllOrNothing ==
    [][\A w \in Workers :
          RunEnds(w) => \/ table' = table \o sess[w].staged
                        \/ table' = table]_vars

\* A run has inserted one of its rows and staged another whose period was
\* committed meanwhile: its next statement fails and both rows must go.
AllOrNothingWitness ==
    \E w \in Workers :
        /\ pc[w] = "loop"
        /\ sess[w].flushed # <<>>
        /\ sess[w].pending # <<>>
        /\ Head(sess[w].pending).period \in Periods(table)

\* C4: a run whose INSERT hits the unique index, because an overlapping
\* run committed the period first, still stores the other periods of its
\* list.
ConflictAbsorbed ==
    [][\A w \in Workers :
          ( /\ RunEnds(w)
            /\ sess[w].pending # <<>>
            /\ Head(sess[w].pending).period \in Periods(table) )
          => \A i \in 1..Len(response[w].items) :
                str(response[w].items[i].period) \in Periods(table')]_vars

\* C7: a step never removes or changes a committed row: the table only
\* grows at its end.
AppendOnly == [][IsPrefix(table, table')]_vars

\* A run has gone through a list that carries period "100" with other
\* values than the committed row of that period, and a new period; it is
\* about to commit.
AppendOnlyWitness ==
    /\ pc[1] = "loop"
    /\ data[1] = <<>>
    /\ sess[1].found > 0
    /\ ItemA2 \in Range(response[1].items)
    /\ KbtResult(ItemA.period, ItemA) \in Range(table)

\* The rows of a sequence of rows, as a set.
Rows(seq) == Range(seq)

\* The rows of g that the page lacks fell to the limit: the page is full
\* and each of them sorts after its last row.
CutByLimit(g, results) ==
    /\ Len(results) = ReadLimit
    /\ \A r \in g \ Rows(results) :
          StrLess(r.period, results[Len(results)].period)

\* C9 as stated: the page shows committed rows only, and of the rows one
\* run committed together it shows all or none.
ReadsWholeCommits ==
    /\ Rows(page.results) \subseteq Rows(page.seen)
    /\ Rows(page.results) \subseteq Rows(table)
    /\ \A g \in groups :
          g \subseteq Rows(page.results) \/ g \cap Rows(page.results) = {}

\* C9, amended: the page shows committed rows only, and of the rows one
\* run committed together it shows all or none, or all but those its
\* 100-row limit cuts off.
ReadsCommittedOnly ==
    /\ Rows(page.results) \subseteq Rows(page.seen)
    /\ Rows(page.results) \subseteq Rows(table)
    /\ \A g \in groups :
          \/ g \subseteq Rows(page.results)
          \/ g \cap Rows(page.results) = {}
          \/ CutByLimit(g, page.results)

\* A request ran while a run held inserted, uncommitted rows, and it
\* returned rows; the run is still open.
ReadsCommittedOnlyWitness ==
    /\ page.served /\ page.open
    /\ page.results # <<>>
    /\ sess[1].flushed # <<>>
    /\ page.seen = table

Min(a, b) == IF a < b THEN a ELSE b

\* C10: a request that succeeds returns min(100, size of the table) rows,
\* by period strictly descending, and no row it leaves out has a greater
\* period than a row it returns; none on an empty table.
LatestIsTop ==
    (page.served /\ ~page.error) =>
        LET R == page.results
            T == page.seen
        IN  /\ Len(R) = Min(ReadLimit, Len(T))
            /\ \A i \in 1..(Len(R) - 1) : StrLess(R[i + 1].period, R[i].period)
            /\ Rows(R) \subseteq Rows(T)
            /\ \A t \in Rows(T) \ Rows(R) :
                  StrLess(t.period, R[Len(R)].period)

\* A request succeeded on a table of more than 100 rows.
LatestIsTopWitness ==
    /\ page.served /\ ~page.error
    /\ Len(page.seen) > ReadLimit
    /\ Len(page.results) = ReadLimit

\* The row of an object fits the columns of the table.
FitsColumns(item) ==
    /\ Len(str(get(item, "period", PyNone))) <= PeriodLen
    /\ Len(str(get(item, "number", PyStr(NA)))) <= NumberLen
    /\ Len(str(get(item, "color", PyStr(NA)))) <= ColorLen

\* The list of the run of process 1.
items == response[1].items

\* C3: a list of objects that has been run is run once more: every period
\* of the list that is not null is then stored exactly once, and the second
\* run stages nothing and stores nothing.
IdempotentTwice ==
    [][( /\ RunEnds(1)
         /\ ~DatabaseFailed(hist'.outcome)
         /\ \A i \in 1..Len(items) : items[i].obj /\ FitsColumns(items[i]) )
       => LET second == RunCycle(table', response[1])
          IN  /\ second.staged = <<>>
              /\ second.table = table'
              /\ \A i \in 1..Len(items) :
                    ~NoPeriod(items[i]) =>
                        Count(str(items[i].period), second.table) = 1]_vars

\* A response that never came or came with a status outside 200-299.
NetworkError(status) == status = 0 \/ status < 200 \/ status >= 300

\* C5: after a run whose request failed (no response, or a status that is
\* not 2xx), the table is what it was when the run began.
NetworkFailureKeepsStore ==
    (pc[1] = "idle" /\ hist.outcome # "none" /\ NetworkError(hist.status))
        => table = hist.start

\* C6: an object without a period does not end the run by itself and
\* stages nothing, and the run leaves the table that the run of the list
\* without that object would leave, wherever the object stands in the list.
NoPeriodDropped ==
    [][/\ ( /\ pc[1] = "loop" /\ data[1] # <<>>
            /\ NoPeriod(Head(data[1])) )
          => /\ pc'[1] = "loop" => sess'[1].staged = sess[1].staged
             /\ (pc'[1] = "idle" /\ sess[1].pending = <<>>)
                    => hist'.outcome = "OperationalError"
       /\ (RunEnds(1) /\ ~DatabaseFailed(hist'.outcome))
          => \A i \in 1..Len(items) :
                NoPeriod(items[i]) =>
                    table' = RunCycle(hist.start,
                                [response[1] EXCEPT !.items = RemoveAt(items, i)]
                             ).table]_vars

\* A run has gone through a list with an object without a period between
\* two objects it staged.
NoPeriodDroppedWitness ==
    /\ pc[1] = "loop"
    /\ data[1] = <<>>
    /\ Len(items) = 3
    /\ NoPeriod(items[2])
    /\ Len(sess[1].staged) = 2

\* How a run ends when it fails.
Failures == {"RequestException", "JSONDecodeError", "AttributeError",
             "ProgrammingError", "DataError", "IntegrityError",
             "OperationalError", "DeadlockDetected", "escaped"}

\* C8: no exception leaves the job, and a run that failed has
\* returned with the table, the session and the job's state as they were
\* when it began, so that the scheduler's next run starts as if it had not
\* run.
FailureContained ==
    /\ hist.outcome # "escaped"
    /\ hist.outcome \in Failures
          => /\ pc[1] = "idle"
             /\ table = hist.start
             /\ sess[1] = NewSession
             /\ data[1] = <<>>
             /\ response[1] = NoResponse

\* Each run of process 1 leaves the table that RunCycle computes from the
\* table it began with and its response.
RunCycleAgrees ==
    [][(RunEnds(1) /\ ~DatabaseFailed(hist'.outcome))
       => /\ table' = RunCycle(hist.start, response[1]).table
          /\ hist'.outcome = RunCycle(hist.start, response[1]).outcome]_vars

\* C11: every request to "/" gets its page; the error indicator is set
\* exactly when the query raised, and then the page has no rows; a query
\* that succeeds, on an empty table too, gives no error indicator.
ReadErrorIndicator ==
    /\ page.asked => page.served
    /\ page.served =>
          /\ page.error <=> page.failed
          /\ page.failed => page.results = <<>>
          /\ (~page.failed /\ page.seen = <<>>) =>
                (page.results = <<>> /\ ~page.error)

\* C12: a run whose response is the empty list ends the way a run ends
\* whose list holds nothing new (line 87), not the way a run ends whose
\* response is not a list (line 89), and the table is what it was.
EmptyListNormalPath ==
    (pc[1] = "idle" /\ hist.status = 200 /\ hist.body = "empty")
        => /\ hist.outcome = "nonew"
           /\ table = hist.start

\* C13: a run that ends without an exception has counted in
\* new_results_found as many rows as the table gains by it, none included
\* and lists that repeat a period included.
CountsStoredRows ==
    [][(RunEnds(1) /\ hist'.outcome \in {"stored", "nonew"})
       => /\ Len(table') - Len(hist.start) = sess[1].found
          /\ Len(table') - Len(table) = sess[1].found
          /\ hist'.outcome = "nonew" <=> sess[1].found = 0]_vars

\* A run is at line 83 with a list that repeats a period it stores, on a
\* table that holds rows: it has counted fewer rows than the list has
\* elements.
CountsStoredRowsWitness ==
    /\ pc[1] = "loop"
    /\ data[1] = <<>>
    /\ table # <<>>
    /\ sess[1].found > 0
    /\ sess[1].found < Len(items)
    /\ \E i, j \in 1..Len(items) :
          /\ i < j
          /\ items[i].obj /\ items[j].obj
          /\ items[i].period = items[j].period
          /\ items[i].period.t = "str"
          /\ items[i].period.s \notin Periods(table)

\* The row line 75 builds for an object, computed from the object's keys.
ExpectedRow(item) ==
    [period |-> str(item.period),
     number |-> IF item.number = Absent THEN NA ELSE str(item.number),
     color |-> IF item.color = Absent THEN NA ELSE str(item.color)]

\* The run of w is at the query of line 72: the row staged before is
\* inserted, so the element that follows is the first thing that can go
\* wrong.
AtSelect(w) == pc[w] = "loop" /\ data[w] # <<>> /\ sess[w].pending = <<>>

\* C14: an element whose period, as a string, is the period of a stored
\* row goes through the loop body as an existing record: nothing is staged
\* for it and the run goes on, whether the period came as a string or as a
\* number.
PeriodNormalisedBeforeCheck ==
    [][( /\ pc[1] = "loop" /\ data[1] # <<>>
         /\ Head(data[1]).obj
         /\ ~NoPeriod(Head(data[1]))
         /\ str(Head(data[1]).period) \in Periods(table)
         /\ AtSelect(1)
         /\ ~DatabaseFailed(hist'.outcome) )
       => /\ pc'[1] = "loop"
          /\ sess'[1].staged = sess[1].staged
          /\ sess'[1].found = sess[1].found]_vars

\* An element of the list is not a JSON object.
HasNonObject(l) == \E i \in 1..Len(l) : ~l[i].obj

\* C15: a run whose response is not JSON, is JSON but not a list, or is a
\* list with an element that is not an object, returns with the table as
\* it was when the run began, also when elements before that one were
\* staged.
MalformedKeepsStore ==
    [][/\ (pc[1] = "idle" /\ pc'[1] = "idle" /\ hist'.body \in {"text", "value"})
          => table' = hist'.start /\ table' = table
       /\ (pc[1] = "loop" /\ HasNonObject(items))
          => table' = hist.start /\ table' = table]_vars

\* A run staged two rows and then failed on an element that is not an
\* object, on a table that holds rows.
MalformedKeepsStoreWitness ==
    /\ pc[1] = "idle"
    /\ hist.outcome = "AttributeError"
    /\ hist.found = 2
    /\ table # <<>>

\* The element is an object whose period is a string and whose row fits
\* the columns.
WellFormed(item) ==
    item.obj /\ item.period.t = "str" /\ FitsColumns(item)

\* The first element of the list with the period of element i.
First(l, i) ==
    CHOOSE j \in 1..i :
        /\ l[j].obj /\ l[j].period = l[i].period
        /\ \A k \in 1..(j - 1) : ~(l[k].obj /\ l[k].period = l[i].period)

\* C16: an object with a period that lacks number or color does not stop
\* the loop and, when its period is new, is staged with "N/A" in the
\* fields it lacks and str() of the values it has; the run that commits
\* stores that row, and a list of well-formed objects is never rolled back
\* for the missing keys.
MissingFieldsStored ==
    [][/\ ( /\ pc[1] = "loop" /\ data[1] # <<>>
            /\ WellFormed(Head(data[1]))
            /\ Absent \in {Head(data[1]).number, Head(data[1]).color}
            /\ AtSelect(1)
            /\ ~DatabaseFailed(hist'.outcome) )
          => /\ pc'[1] = "loop"
             /\ Head(data[1]).period.s \notin
                    Periods(table) \cup Periods(sess[1].staged)
                => sess'[1].staged =
                       Append(sess[1].staged, ExpectedRow(Head(data[1])))
       /\ ( /\ RunEnds(1)
            /\ ~DatabaseFailed(hist'.outcome)
            /\ \A i \in 1..Len(items) : WellFormed(items[i]) )
          => /\ hist'.outcome \in {"stored", "nonew"}
             /\ \A i \in 1..Len(items) :
                   (Absent \in {items[i].number, items[i].color}
                    /\ items[i].period.s \notin Periods(hist.start)
                    /\ First(items, i) = i)
                   => ExpectedRow(items[i]) \in Range(table')]_vars

\* A run has stored an object that lacks its color, one that lacks its
\* number and one that lacks both.
MissingFieldsStoredWitness ==
    /\ pc[1] = "idle"
    /\ hist.outcome = "stored"
    /\ hist.found = 2
    /\ [period |-> S101, number |-> <<"7">>, color |-> NA] \in Range(table)
    /\ [period |-> S99, number |-> NA, color |-> <<"g", "r", "e", "e", "n">>]
          \in Range(table)

\* C17: a run, alone, of a list of well-formed objects in which a period
\* that is not stored occurs more than once ends with a commit; the table
\* then holds one row of that period, with the number and color of its
\* first occurrence, and a row for every other period of the list.
DuplicateInBatch ==
    [][( /\ RunEnds(1)
         /\ ~DatabaseFailed(hist'.outcome)
         /\ \A i \in 1..Len(items) : WellFormed(items[i])
         /\ \E i, j \in 1..Len(items) :
               /\ i < j /\ items[i].period = items[j].period
               /\ items[i].period.s \notin Periods(hist.start) )
       => /\ hist'.outcome = "stored"
          /\ \A i \in 1..Len(items) :
                /\ Count(items[i].period.s, table') = 1
                /\ items[i].period.s \notin Periods(hist.start)
                   => ExpectedRow(items[First(items, i)]) \in Range(table')]_vars

\* A run has stored a list that carries period "100" twice, with different
\* numbers and colors, and another new period: the table holds the row of
\* the first occurrence.
DuplicateInBatchWitness ==
    /\ pc[1] = "idle"
    /\ hist.outcome = "stored"
    /\ hist.found = 2
    /\ hist.start = <<>>
    /\ table = <<ExpectedRow(ItemA2), ExpectedRow(ItemB)>>

\* C18: once every fetch succeeds with a well-formed object of period
\* "100" in its list, and the runs are scheduled fairly, a row of period
\* "100" is eventually committed, whatever runs of two processes were going
\* on and whichever of them are rolled back.
EventuallyStored == Settled ~> (S100 \in Periods(table))

====
